---- MODULE Spec2Model ----
(***************************************************************************)
(* Reference resolution in gitoxide: handles over a shared Repository with *)
(* a handle-local Cache (git-repository/src/lib.rs) and the sorted walk    *)
(* over the loose reference files (git-ref/src/store/file/loose/iter.rs).  *)
(*                                                                         *)
(* Two specifications share the variables: Spec runs the handle, cache and *)
(* Reference operations; SpecIter runs loose iteration over a directory    *)
(* tree.                                                                   *)
(***************************************************************************)
EXTENDS Integers, Sequences, FiniteSets, TLC

(***************************************************************************)
(* Bounds of the handle model.                                             *)
(***************************************************************************)
MaxHandles == 2
MaxFind == 1
MaxId == 2
MaxBuf == 2

\* Option::None of Option<packed::Buffer> and Option<ObjectId>; Some(x) is x > 0.
None == 0

ObjectIds == 1..MaxId
Buffers == 1..MaxBuf
HandleKinds == {"Shared", "SharedArc"}
RefNames == {"refs/tags/v1"}

VARIABLES
    repository,   \* the Repository every handle points to
    handles,      \* sequence of handles: [kind, repo, cache]
    reference,    \* the Reference the caller holds: [access, backing]
    called,       \* per handle: Cache::packed_refs has run on its Cache
    last,         \* the operation that ran last and what it did
    fs,           \* loose iteration: the directory tree below the base
    readdir,      \* loose iteration: order in which the filesystem enumerates
    iter,         \* loose iteration: the walker / reader in use
    output,       \* loose iteration: items yielded so far
    previous,     \* loose iteration: items of the previous complete run
    objects,      \* the Objects the caller keeps from its peels
    compared      \* the last comparison of two Objects

repoVars == <<repository, handles, reference, called, last>>
iterVars == <<fs, readdir, iter, output, previous>>
objVars == <<objects, compared>>
vars == <<repository, handles, reference, called, last, fs, readdir, iter, output, previous,
          objects, compared>>

(***************************************************************************)
(* Repository, Cache and handles.                                          *)
(***************************************************************************)
\* struct Repository: the refs store, the object database, the working tree.
Repository == [refs |-> "base", odb |-> "objects", working_tree |-> "worktree"]

\* Where the one Repository lives: what an Rc / Arc of it points to.
RepoPtr == 1

\* Cache::default(): no packed buffer, empty scratch buffer.
Cache_default == [packed_refs |-> None, buf |-> <<>>]

\* From<Repository> for Shared / SharedArc.
Handle_from(kind, repo) == [kind |-> kind, repo |-> repo, cache |-> Cache_default]

\* A clone that carries the source's cache over.
Handle_clone_CopiesCache(h) == [kind |-> h.kind, repo |-> h.repo, cache |-> h.cache]

\* Clone for Shared / SharedArc: same Repository, brand-new Cache.
Handle_clone(h) == [kind |-> h.kind, repo |-> h.repo, cache |-> Cache_default]

\* What Store::packed() can return: an error (-1), no packed file (None), a buffer.
OpenError == -1
OpenOutcomes == {OpenError, None} \cup Buffers

\* A packed_refs that opens the file on every call.
Cache_packed_refs_AlwaysOpens(cache, open) ==
    IF open = OpenError
    THEN [cache |-> cache, err |-> TRUE, opened |-> 1, value |-> None]
    ELSE [cache |-> [cache EXCEPT !.packed_refs = open],
          err |-> FALSE, opened |-> 1, value |-> open]

\* A packed_refs that keeps a buffer in the slot when the open fails.
Cache_packed_refs_CachesFailure(cache, open) ==
    IF cache.packed_refs # None
    THEN [cache |-> cache, err |-> FALSE, opened |-> 0, value |-> cache.packed_refs]
    ELSE IF open = OpenError
         THEN [cache |-> [cache EXCEPT !.packed_refs = MaxBuf],
               err |-> TRUE, opened |-> 1, value |-> None]
         ELSE [cache |-> [cache EXCEPT !.packed_refs = open],
               err |-> FALSE, opened |-> 1, value |-> open]

\* A packed_refs that hands a loaded buffer out of the slot and leaves it empty.
Cache_packed_refs_TakesBuffer(cache, open) ==
    IF cache.packed_refs # None
    THEN [cache |-> [cache EXCEPT !.packed_refs = None],
          err |-> FALSE, opened |-> 0, value |-> cache.packed_refs]
    ELSE IF open = OpenError
         THEN [cache |-> cache, err |-> TRUE, opened |-> 1, value |-> None]
         ELSE [cache |-> [cache EXCEPT !.packed_refs = open],
               err |-> FALSE, opened |-> 1, value |-> open]

\* Cache::packed_refs(&mut self, file): `open` is what file.packed() returns if called.
Cache_packed_refs(cache, open) ==
    IF cache.packed_refs # None
    THEN [cache |-> cache, err |-> FALSE, opened |-> 0, value |-> cache.packed_refs]
    ELSE IF open = OpenError
         THEN [cache |-> cache, err |-> TRUE, opened |-> 1, value |-> None]
         ELSE [cache |-> [cache EXCEPT !.packed_refs = open],
               err |-> FALSE, opened |-> 1, value |-> open]

\* An access that lets the operation write to the object database.
Access_repo_Writes(repos, hs, h) == [repos EXCEPT ![hs[h].repo].odb = "written"]

\* Access::repo for Shared / SharedArc: the operation gets `&Repository`, a
\* shared reference into the Rc / Arc, through which it reads the refs store and
\* the object database (Store::packed, Store::find, odb.find all take &self).
\* The repositories afterwards are the repositories before.
Access_repo(repos, hs, h) == repos

\* A cache_mut that reaches one Cache shared by every handle.
Handles_cache_mut_Shared(hs, h, cache) ==
    [i \in DOMAIN hs |-> [hs[i] EXCEPT !.cache = cache]]

\* Access::cache_mut for Shared / SharedArc: a write through handle h lands in
\* the RefCell<Cache> of h.
Handles_cache_mut(hs, h, cache) == [hs EXCEPT ![h].cache = cache]

(***************************************************************************)
(* RefCell<Cache>: the borrows outstanding inside one operation.           *)
(***************************************************************************)
Unborrowed == [readers |-> 0, writer |-> FALSE]

\* Access::cache(): RefCell::borrow.
CanBorrow(b) == ~b.writer
Borrow(b) == [b EXCEPT !.readers = @ + 1]

\* Access::cache_mut(): RefCell::borrow_mut.
CanBorrowMut(b) == b.readers = 0 /\ ~b.writer
BorrowMut(b) == [b EXCEPT !.writer = TRUE]

(***************************************************************************)
(* Reference and its Backing.                                              *)
(***************************************************************************)
NoBacking == [kind |-> "None"]
OwnedPacked(name, target, object) ==
    [kind |-> "OwnedPacked", name |-> name, target |-> target, object |-> object]
\* refs::file::loose::Reference: name and target; `peeled` is the state its own
\* peel keeps to answer a second peel without lookups.
LooseFile(name, target, peeled) ==
    [kind |-> "LooseFile", name |-> name, target |-> target, peeled |-> peeled]

Peeled(id) == [kind |-> "Peeled", id |-> id, name |-> ""]
Symbolic(name) == [kind |-> "Symbolic", id |-> None, name |-> name]
Targets == {Peeled(i) : i \in ObjectIds} \cup {Symbolic(n) : n \in RefNames}

\* What Store::find can return. The peeled id of a packed entry is the id of the
\* object its tag leads to, never the tag's own id.
FindOutcomes ==
    {[kind |-> "Error"], [kind |-> "NotFound"]}
    \cup {f \in {[kind |-> "Packed", name |-> n, target |-> t, object |-> o] :
                    n \in RefNames, t \in ObjectIds, o \in {None} \cup ObjectIds} :
              f.object # f.target}
    \cup {[kind |-> "Loose", name |-> n, target |-> t] : n \in RefNames, t \in Targets}

\* A from_ref that leaves the peeled id of a packed entry behind.
Reference_from_ref_DropsPeeledId(found) ==
    IF found.kind = "Packed"
    THEN OwnedPacked(found.name, found.target, None)
    ELSE LooseFile(found.name, found.target, FALSE)

\* Reference::from_ref.
Reference_from_ref(found) ==
    IF found.kind = "Packed"
    THEN OwnedPacked(found.name, found.target, found.object)
    ELSE LooseFile(found.name, found.target, FALSE)

\* A target() that answers with the peeled id of a packed entry when it has one.
Reference_target_PrefersPeeledId(backing) ==
    IF backing.kind = "None" THEN [kind |-> "Panic", id |-> None, name |-> ""]
    ELSE IF backing.kind = "OwnedPacked"
    THEN Peeled(IF backing.object # None THEN backing.object ELSE backing.target)
    ELSE backing.target

\* Reference::target.
Reference_target(backing) ==
    IF backing.kind = "None" THEN [kind |-> "Panic", id |-> None, name |-> ""]
    ELSE IF backing.kind = "OwnedPacked" THEN Peeled(backing.target)
    ELSE backing.target

\* Reference::name.
Reference_name(backing) ==
    IF backing.kind = "None" THEN "Panic" ELSE backing.name

NoReference == [access |-> 0, backing |-> NoBacking]
NoTarget == [kind |-> "None", id |-> None, name |-> ""]

\* Object::try_from_oid: struct Object { id, access }.
Object_try_from_oid(oid, access) == [id |-> oid, access |-> access]

\* An equality that also wants the two Objects to come from the same handle.
Object_eq_SameAccess(a, b) == a.id = b.id /\ a.access = b.access

\* PartialEq<Object<A>> for Object<B>
Object_eq(a, b) == a.id = b.id

\* What one step of a peel hands back: the Reference's backing and the Cache
\* afterwards, the result, and what the step did on the way.
PeelOutcome(backing, cache, result, id, opened, finds, callbacks, borrows) ==
    [backing |-> backing, cache |-> cache, result |-> result, id |-> id,
     calls |-> IF borrows > 0 THEN 1 ELSE 0,
     opened |-> opened, finds |-> finds, callbacks |-> callbacks, borrows |-> borrows]

\* The object-lookup closure handed to the loose peel: `b` is the borrow state of
\* the Cache when the closure runs. Its cache_mut() comes before odb.find.
FindCallback(b) ==
    IF CanBorrowMut(b) THEN [panic |-> FALSE, finds |-> 1, borrows |-> 1]
    ELSE [panic |-> TRUE, finds |-> 0, borrows |-> 1]

\* refs::file::loose::Reference::peel_to_id_in_place, as the design describes it:
\* a reference it peeled before answers from its own state; otherwise it resolves
\* with `need` object lookups through the closure and ends in `res`, an object id
\* or (None) a failure to find or decode.
LoosePeelToIdInPlace(r, need, res, b) ==
    IF r.peeled
    THEN [r |-> r, result |-> "Ok", id |-> r.target.id, finds |-> 0, callbacks |-> 0, borrows |-> 0]
    ELSE IF need > 0 /\ FindCallback(b).panic
    THEN [r |-> r, result |-> "Panic", id |-> None, finds |-> 0, callbacks |-> 1,
          borrows |-> FindCallback(b).borrows]
    ELSE IF res = None
    THEN [r |-> r, result |-> "LoosePeelToId", id |-> None, finds |-> need,
          callbacks |-> need, borrows |-> need]
    ELSE [r |-> LooseFile(r.name, Peeled(res), TRUE), result |-> "Ok", id |-> res,
          finds |-> need, callbacks |-> need, borrows |-> need]

\* A loose arm that runs the loose peel first and loads the packed buffer after.
PeelLoose_PeelsBeforeLoading(r, cache, open, need, res) ==
    LET pr == Cache_packed_refs(cache, open)
        lp == LoosePeelToIdInPlace(r, need, res, Borrow(Unborrowed))
    IN  IF lp.result # "Ok"
        THEN PeelOutcome(NoBacking, cache, lp.result, None, 0, lp.finds,
                         lp.callbacks, 1 + lp.borrows)
        ELSE IF pr.err
        THEN PeelOutcome(NoBacking, pr.cache, "PackedRefsOpen", None, pr.opened, lp.finds,
                         lp.callbacks, 2 + lp.borrows)
        ELSE PeelOutcome(lp.r, pr.cache, "Ok", lp.id, pr.opened, lp.finds,
                         lp.callbacks, 2 + lp.borrows)

\* peel_to_object_in_place, LooseFile arm. The backing was taken out of the
\* Reference before the arm runs; an early return leaves it taken. The shared
\* borrow made for the packed buffer argument lasts for the whole loose peel.
PeelLoose(r, cache, open, need, res) ==
    LET pr == Cache_packed_refs(cache, open)
        lp == LoosePeelToIdInPlace(r, need, res, Borrow(Unborrowed))
    IN  IF pr.err
        THEN PeelOutcome(NoBacking, pr.cache, "PackedRefsOpen", None, pr.opened, 0, 0, 1)
        ELSE IF lp.result = "Ok"
        THEN PeelOutcome(lp.r, pr.cache, "Ok", lp.id, pr.opened, lp.finds,
                         lp.callbacks, 2 + lp.borrows)
        ELSE PeelOutcome(NoBacking, pr.cache, lp.result, None, pr.opened, lp.finds,
                         lp.callbacks, 2 + lp.borrows)

\* A packed arm that loads the packed buffer like the loose arm does.
PeelPacked_LoadsPackedRefs(p, cache, open) ==
    LET pr == Cache_packed_refs(cache, open)
        target == IF p.object # None THEN p.object ELSE p.target
    IN  IF pr.err
        THEN PeelOutcome(NoBacking, pr.cache, "PackedRefsOpen", None, pr.opened, 0, 0, 1)
        ELSE PeelOutcome(OwnedPacked(p.name, target, None), pr.cache, "Ok", target,
                         pr.opened, 0, 0, 1)

\* A packed arm that returns the target and leaves the peeled id in its slot.
PeelPacked_IgnoresPeeledId(p, cache, open) ==
    PeelOutcome(OwnedPacked(p.name, p.target, p.object), cache, "Ok", p.target, 0, 0, 0, 0)

\* peel_to_object_in_place, OwnedPacked arm.
PeelPacked(p, cache, open) ==
    LET target == IF p.object # None THEN p.object ELSE p.target
    IN  PeelOutcome(OwnedPacked(p.name, target, None), cache, "Ok", target, 0, 0, 0, 0)

\* Reference::peel_to_object_in_place: backing.take().expect(..), then the arm.
Reference_peel_to_object_in_place(backing, cache, open, need, res) ==
    IF backing.kind = "None"
    THEN PeelOutcome(NoBacking, cache, "Panic", None, 0, 0, 0, 0)
    ELSE IF backing.kind = "LooseFile"
    THEN PeelLoose(backing, cache, open, need, res)
    ELSE PeelPacked(backing, cache, open)

\* The outcomes of Store::packed() a call on `cache` can tell apart: none when
\* the slot is loaded, since the file is not opened then.
OpensFor(cache) == IF cache.packed_refs # None THEN {None} ELSE OpenOutcomes

\* What an operation reports: the operation, the handle it ran on, its result,
\* and what it did on the way (calls: Cache::packed_refs invocations; opened:
\* Store::packed invocations; finds: odb.find invocations; callbacks: runs of the
\* object-lookup closure; borrows: cache()/cache_mut() calls; storeFind:
\* Store::find invocations; target: for target() its result, for a peel the target
\* the Reference had when the peel began; found: what Store::find returned).
NotSearched == [kind |-> "NotSearched"]
Report(op, h) ==
    [op |-> op, h |-> h, result |-> "Ok", id |-> None, calls |-> 0, opened |-> 0,
     finds |-> 0, callbacks |-> 0, borrows |-> 0, storeFind |-> 0, retry |-> FALSE,
     target |-> NoTarget, name |-> "", found |-> NotSearched]

\* A Cache::packed_refs call on handle h comes right after one on the same handle
\* that failed to open the packed file.
Retry(h) == last.calls = 1 /\ last.h = h /\ last.result = "PackedRefsOpen"

(***************************************************************************)
(* Paths, as sequences of components; a component is a sequence of bytes.  *)
(***************************************************************************)
Slash == 47
cRefs == <<114, 101, 102, 115>>     \* "refs"
cA == <<97>>                        \* "a"
cAB == <<97, 45, 98>>               \* "a-b"
cB == <<98>>                        \* "b"
cCtl == <<97, 1>>                   \* "a\x01"
cO == <<111>>                       \* "o", beside refs/ in the base directory
cDot == <<46>>                      \* "."
cDotDot == <<46, 46>>               \* ".."
cBase == <<103, 105, 116>>          \* the base directory

\* Store.base
Base == <<cBase>>

Min(a, b) == IF a < b THEN a ELSE b

\* Ord of byte strings (OsStr, BString): lexicographic by byte.
BytesLess(a, b) ==
    \E i \in 1..(Min(Len(a), Len(b)) + 1) :
        /\ \A j \in 1..(i - 1) : a[j] = b[j]
        /\ \/ i > Len(a) /\ i <= Len(b)
           \/ i <= Len(a) /\ i <= Len(b) /\ a[i] < b[i]

RECURSIVE JoinBytes(_)
\* A path as its bytes: the components with a slash between them.
JoinBytes(path) ==
    IF path = <<>> THEN <<>>
    ELSE IF Len(path) = 1 THEN path[1]
    ELSE path[1] \o <<Slash>> \o JoinBytes(Tail(path))

IsPrefix(p, q) == Len(p) <= Len(q) /\ SubSeq(q, 1, Len(p)) = p

\* Path::strip_prefix
StripPrefix(path, base) == SubSeq(path, Len(base) + 1, Len(path))

(***************************************************************************)
(* The directory tree below the base, and how the filesystem lists it.     *)
(***************************************************************************)
\* The entries a tree can hold, each with the kinds of entry it can be:
\* "file" a regular file holding a reference, "junk" a regular file whose content
\* does not decode, "locked" a regular file that cannot be opened, "torn" a regular file
\* whose read fails after its first byte, "symlink" a
\* link to something that is no directory, "baddir" a directory that cannot be
\* listed.
Universe ==
    <<cRefs>> :> {"dir", "file"}
    @@ <<cRefs, cA>> :> {"dir", "file", "symlink", "baddir"}
    @@ <<cRefs, cA, cB>> :> {"file", "junk", "torn"}
    @@ <<cRefs, cA, cCtl>> :> {"file"}
    @@ <<cRefs, cAB>> :> {"file", "locked"}
    @@ <<cRefs, cB>> :> {"file", "symlink"}
    @@ <<cO>> :> {"file"}

EntryKinds == {"absent", "dir", "file", "junk", "locked", "torn", "symlink", "baddir"}
Parent(path) == SubSeq(path, 1, Len(path) - 1)

Trees ==
    {t \in [DOMAIN Universe -> EntryKinds] :
        \A q \in DOMAIN Universe :
            /\ t[q] \in Universe[q] \cup {"absent"}
            /\ (t[q] # "absent" /\ Len(q) > 1) => t[Parent(q)] \in {"dir", "baddir"}}

\* Path components that mean something to the filesystem: "." stays in place.
Resolve(raw) == SelectSeq(raw, LAMBDA c : c # cDot)

KindOf(tree, raw) ==
    LET q == Resolve(raw)
    IN  IF q = <<>> THEN "dir"
        ELSE IF q \in DOMAIN tree THEN tree[q]
        ELSE "absent"

IsFile(kind) == kind \in {"file", "junk", "locked", "torn"}
IsDir(kind) == kind \in {"dir", "baddir"}

ChildNames(tree, raw) ==
    LET q == Resolve(raw)
    IN  {r[Len(r)] : r \in {r \in DOMAIN tree :
                                Len(r) = Len(q) + 1 /\ IsPrefix(q, r) /\ tree[r] # "absent"}}

\* The orders a directory of up to three entries can be listed in.
ReadDirOrders ==
    {<<1, 2, 3>>, <<1, 3, 2>>, <<2, 1, 3>>, <<2, 3, 1>>, <<3, 1, 2>>, <<3, 2, 1>>}

RECURSIVE InOrder(_, _)
\* The elements of S, each placed by its key.
InOrder(S, key) ==
    IF S = {} THEN <<>>
    ELSE LET x == CHOOSE x \in S : \A y \in S : key[x] <= key[y]
         IN  <<x>> \o InOrder(S \ {x}, key)

\* read_dir: the names in a directory, in the order the filesystem gives them.
ReadDir(tree, raw, order) ==
    LET names == ChildNames(tree, raw)
        rank == [n \in names |-> Cardinality({m \in names : BytesLess(m, n)}) + 1]
    IN  InOrder(names, [n \in names |-> order[rank[n]]])

(***************************************************************************)
(* The sorted directory walk.                                              *)
(***************************************************************************)
RECURSIVE InsertByName(_, _)
InsertByName(sorted, n) ==
    IF sorted = <<>> THEN <<n>>
    ELSE IF BytesLess(n, Head(sorted)) THEN <<n>> \o sorted
    ELSE <<Head(sorted)>> \o InsertByName(Tail(sorted), n)

RECURSIVE SortByFileName(_)
\* walkdir_sorted_new: the entries of one directory sorted by file name.
SortByFileName(names) ==
    IF names = <<>> THEN <<>>
    ELSE InsertByName(SortByFileName(Tail(names)), Head(names))

WalkEntry(raw, kind) == [kind |-> "Entry", path |-> Base \o raw, type |-> kind]
WalkError(raw) == [kind |-> "Err", path |-> Base \o raw, type |-> "absent"]

RECURSIVE WalkDir(_, _, _, _)
\* walkdir's DirEntryIter from `raw`: the entry itself, then, for a directory,
\* the walks of its entries, in file name order when `sorted` and as the
\* filesystem lists them otherwise; a root that does not exist and a directory
\* that cannot be listed give an error item.
WalkDir(tree, raw, order, sorted) ==
    LET kind == KindOf(tree, raw)
        listed == ReadDir(tree, raw, order)
        names == IF sorted THEN SortByFileName(listed) ELSE listed
        Below[i \in 0..Len(names)] ==
            IF i = 0 THEN <<>>
            ELSE Below[i - 1] \o WalkDir(tree, raw \o <<names[i]>>, order, sorted)
    IN  IF kind = "absent" THEN <<WalkError(raw)>>
        ELSE IF kind = "baddir" THEN <<WalkEntry(raw, kind), WalkError(raw)>>
        ELSE IF kind = "dir" THEN <<WalkEntry(raw, kind)>> \o Below[Len(names)]
        ELSE <<WalkEntry(raw, kind)>>

\* A walker that walks the tree in the order the filesystem lists it.
SortedLoosePaths_new_Unsorted(tree, order, root, base, mode) ==
    [base |-> base, file_walk |-> WalkDir(tree, root, order, FALSE), mode |-> mode]

\* SortedLoosePaths::new
SortedLoosePaths_new(tree, order, root, base, mode) ==
    [base |-> base, file_walk |-> WalkDir(tree, root, order, TRUE), mode |-> mode]

\* SortedLoosePaths::at_root
SortedLoosePaths_at_root(tree, order, root, base) ==
    SortedLoosePaths_new(tree, order, root, base, "Paths")

\* An at_root_with_names that asks for paths alone.
SortedLoosePaths_at_root_with_names_PathsOnly(tree, order, root, base) ==
    SortedLoosePaths_new(tree, order, root, base, "Paths")

\* SortedLoosePaths::at_root_with_names
SortedLoosePaths_at_root_with_names(tree, order, root, base) ==
    SortedLoosePaths_new(tree, order, root, base, "PathsAndNames")

\* git_validate::reference::name_partial on a relative path: no empty, `.` or
\* `..` component and no control character.
NamePartialOk(rel) ==
    /\ rel # <<>>
    /\ \A i \in 1..Len(rel) :
        /\ rel[i] # <<>> /\ rel[i] # cDot /\ rel[i] # cDotDot
        /\ \A j \in 1..Len(rel[i]) : rel[i][j] >= 32 /\ rel[i][j] # 127 /\ rel[i][j] # Slash

NoName == <<>>
NoItem == [kind |-> "None", path |-> <<>>, name |-> NoName]

RECURSIVE SortedLoosePaths_next_Unvalidated(_)
\* A walker that yields every regular file, whatever its name.
SortedLoosePaths_next_Unvalidated(w) ==
    IF w.file_walk = <<>> THEN [item |-> NoItem, walker |-> w]
    ELSE LET entry == Head(w.file_walk)
             rest == [w EXCEPT !.file_walk = Tail(w.file_walk)]
             full_name == StripPrefix(entry.path, w.base)
         IN  IF entry.kind = "Err"
             THEN [item |-> [kind |-> "Err", path |-> entry.path, name |-> NoName],
                   walker |-> rest]
             ELSE IF ~IsFile(entry.type) THEN SortedLoosePaths_next_Unvalidated(rest)
             ELSE [item |-> [kind |-> "Ok", path |-> entry.path,
                             name |-> IF w.mode = "Paths" THEN NoName
                                      ELSE JoinBytes(full_name)],
                   walker |-> rest]

RECURSIVE SortedLoosePaths_next_AnyType(_)
\* A walker that yields every entry with a valid name, whatever its file type.
SortedLoosePaths_next_AnyType(w) ==
    IF w.file_walk = <<>> THEN [item |-> NoItem, walker |-> w]
    ELSE LET entry == Head(w.file_walk)
             rest == [w EXCEPT !.file_walk = Tail(w.file_walk)]
             full_name == StripPrefix(entry.path, w.base)
         IN  IF entry.kind = "Err"
             THEN [item |-> [kind |-> "Err", path |-> entry.path, name |-> NoName],
                   walker |-> rest]
             ELSE IF NamePartialOk(full_name)
             THEN [item |-> [kind |-> "Ok", path |-> entry.path,
                             name |-> IF w.mode = "Paths" THEN NoName
                                      ELSE JoinBytes(full_name)],
                   walker |-> rest]
             ELSE SortedLoosePaths_next_AnyType(rest)

RECURSIVE SortedLoosePaths_next_EndsAtSkipped(_)
\* A walker that returns None when it meets an entry it does not yield.
SortedLoosePaths_next_EndsAtSkipped(w) ==
    IF w.file_walk = <<>> THEN [item |-> NoItem, walker |-> w]
    ELSE LET entry == Head(w.file_walk)
             rest == [w EXCEPT !.file_walk = Tail(w.file_walk)]
             full_name == StripPrefix(entry.path, w.base)
         IN  IF entry.kind = "Err"
             THEN [item |-> [kind |-> "Err", path |-> entry.path, name |-> NoName],
                   walker |-> rest]
             ELSE IF ~IsFile(entry.type) THEN [item |-> NoItem, walker |-> rest]
             ELSE IF NamePartialOk(full_name)
             THEN [item |-> [kind |-> "Ok", path |-> entry.path,
                             name |-> IF w.mode = "Paths" THEN NoName
                                      ELSE JoinBytes(full_name)],
                   walker |-> rest]
             ELSE [item |-> NoItem, walker |-> rest]

RECURSIVE SortedLoosePaths_next(_)
\* SortedLoosePaths::next: the item returned and the walker afterwards.
SortedLoosePaths_next(w) ==
    IF w.file_walk = <<>> THEN [item |-> NoItem, walker |-> w]
    ELSE LET entry == Head(w.file_walk)
             rest == [w EXCEPT !.file_walk = Tail(w.file_walk)]
             full_name == StripPrefix(entry.path, w.base)
         IN  IF entry.kind = "Err"
             THEN [item |-> [kind |-> "Err", path |-> entry.path, name |-> NoName],
                   walker |-> rest]
             ELSE IF ~IsFile(entry.type) THEN SortedLoosePaths_next(rest)
             ELSE IF NamePartialOk(full_name)
             THEN [item |-> [kind |-> "Ok", path |-> entry.path,
                             name |-> IF w.mode = "Paths" THEN NoName
                                      ELSE JoinBytes(full_name)],
                   walker |-> rest]
             ELSE SortedLoosePaths_next(rest)

(***************************************************************************)
(* The reader over the walker, and the Store's entry points.               *)
(***************************************************************************)
\* Loose::at_root
Loose_at_root(tree, order, root, base) ==
    [ref_paths |-> SortedLoosePaths_at_root(tree, order, root, base), buf |-> <<>>]

\* The bytes of the regular file at a path: two bytes that tell whose they are,
\* and whether they are the text of a reference.
FileContent(tree, raw) ==
    LET byte(n) == [of |-> Resolve(raw), n |-> n, text |-> KindOf(tree, raw) # "junk"]
    IN  <<byte(1), byte(2)>>

\* Read::read_to_end on an opened file: appends what it reads to the buffer; the
\* bytes read before a failure stay in it.
File_read_to_end(tree, raw, buf) ==
    IF KindOf(tree, raw) = "torn"
    THEN [err |-> TRUE, buf |-> buf \o SubSeq(FileContent(tree, raw), 1, 1)]
    ELSE [err |-> FALSE, buf |-> buf \o FileContent(tree, raw)]

\* file::Reference::try_from_path: whether the bytes decode to a reference.
Reference_try_from_path(relative_path, buf) ==
    /\ Len(buf) = 2
    /\ buf[1].text /\ buf[2].text
    /\ buf[1].of = buf[2].of /\ buf[1].n = 1 /\ buf[2].n = 2

\* A reader that drops the rest of the walk once an item is an error.
Loose_next_EndsAtError(tree, reader) ==
    LET got == SortedLoosePaths_next(reader.ref_paths)
        it == got.item
        after == [reader EXCEPT !.ref_paths = got.walker]
        ended == [reader EXCEPT !.ref_paths.file_walk = <<>>]
        relative_path == StripPrefix(it.path, reader.ref_paths.base)
        read == File_read_to_end(tree, relative_path, <<>>)
    IN  IF it.kind = "None" THEN [item |-> [kind |-> "None", path |-> <<>>], reader |-> after]
        ELSE IF it.kind = "Err"
        THEN [item |-> [kind |-> "Traversal", path |-> <<>>], reader |-> ended]
        ELSE IF KindOf(tree, relative_path) = "locked"
        THEN [item |-> [kind |-> "ReadFileContents", path |-> relative_path], reader |-> ended]
        ELSE IF read.err
        THEN [item |-> [kind |-> "ReadFileContents", path |-> relative_path],
              reader |-> [ended EXCEPT !.buf = read.buf]]
        ELSE IF ~Reference_try_from_path(relative_path, read.buf)
        THEN [item |-> [kind |-> "ReferenceCreation", path |-> relative_path],
              reader |-> [ended EXCEPT !.buf = read.buf]]
        ELSE [item |-> [kind |-> "Ok", path |-> relative_path],
              reader |-> [after EXCEPT !.buf = read.buf]]

\* A reader that reads into the buffer as the entry before left it.
Loose_next_KeepsBuffer(tree, reader) ==
    LET got == SortedLoosePaths_next(reader.ref_paths)
        it == got.item
        after == [reader EXCEPT !.ref_paths = got.walker]
        relative_path == StripPrefix(it.path, reader.ref_paths.base)
        read == File_read_to_end(tree, relative_path, reader.buf)
    IN  IF it.kind = "None" THEN [item |-> [kind |-> "None", path |-> <<>>], reader |-> after]
        ELSE IF it.kind = "Err"
        THEN [item |-> [kind |-> "Traversal", path |-> <<>>], reader |-> after]
        ELSE IF KindOf(tree, relative_path) = "locked"
        THEN [item |-> [kind |-> "ReadFileContents", path |-> relative_path], reader |-> after]
        ELSE IF read.err
        THEN [item |-> [kind |-> "ReadFileContents", path |-> relative_path],
              reader |-> [after EXCEPT !.buf = read.buf]]
        ELSE IF ~Reference_try_from_path(relative_path, read.buf)
        THEN [item |-> [kind |-> "ReferenceCreation", path |-> relative_path],
              reader |-> [after EXCEPT !.buf = read.buf]]
        ELSE [item |-> [kind |-> "Ok", path |-> relative_path],
              reader |-> [after EXCEPT !.buf = read.buf]]

\* Loose::next: the item returned (None at the end) and the reader afterwards.
\* A file that opens has the buffer cleared and its bytes read into it; the
\* buffer is decoded when the read went through.
Loose_next(tree, reader) ==
    LET got == SortedLoosePaths_next(reader.ref_paths)
        it == got.item
        after == [reader EXCEPT !.ref_paths = got.walker]
        relative_path == StripPrefix(it.path, reader.ref_paths.base)
        read == File_read_to_end(tree, relative_path, <<>>)
    IN  IF it.kind = "None" THEN [item |-> [kind |-> "None", path |-> <<>>], reader |-> after]
        ELSE IF it.kind = "Err"
        THEN [item |-> [kind |-> "Traversal", path |-> <<>>], reader |-> after]
        ELSE IF KindOf(tree, relative_path) = "locked"
        THEN [item |-> [kind |-> "ReadFileContents", path |-> relative_path], reader |-> after]
        ELSE IF read.err
        THEN [item |-> [kind |-> "ReadFileContents", path |-> relative_path],
              reader |-> [after EXCEPT !.buf = read.buf]]
        ELSE IF ~Reference_try_from_path(relative_path, read.buf)
        THEN [item |-> [kind |-> "ReferenceCreation", path |-> relative_path],
              reader |-> [after EXCEPT !.buf = read.buf]]
        ELSE [item |-> [kind |-> "Ok", path |-> relative_path],
              reader |-> [after EXCEPT !.buf = read.buf]]

\* Store::refs_dir
Store_refs_dir == <<cRefs>>

\* A loose_iter that asks whether refs exists, not whether it is a directory.
Store_loose_iter_IfExists(tree, order) ==
    IF KindOf(tree, Store_refs_dir) = "absent"
    THEN [err |-> "NotFound", reader |-> Loose_at_root(tree, order, <<>>, Base)]
    ELSE [err |-> "", reader |-> Loose_at_root(tree, order, Store_refs_dir, Base)]

\* Store::loose_iter
Store_loose_iter(tree, order) ==
    IF ~IsDir(KindOf(tree, Store_refs_dir))
    THEN [err |-> "NotFound", reader |-> Loose_at_root(tree, order, <<>>, Base)]
    ELSE [err |-> "", reader |-> Loose_at_root(tree, order, Store_refs_dir, Base)]

\* Path::components: a `.` is a component at the start of a path alone.
Components(prefix) ==
    [i \in 1..Len(prefix.path) |->
        IF prefix.path[i] = cDotDot THEN "ParentDir"
        ELSE IF prefix.path[i] = cDot THEN (IF i = 1 THEN "CurDir" ELSE "Skipped")
        ELSE "Normal"]

\* Store::validate_prefix
Store_validate_prefix(prefix) ==
    IF prefix.absolute THEN "InvalidInput"
    ELSE IF \E i \in 1..Len(prefix.path) : Components(prefix)[i] \in {"CurDir", "ParentDir"}
    THEN "InvalidInput"
    ELSE ""

\* Store::loose_iter_prefixed
Store_loose_iter_prefixed(tree, order, prefix) ==
    [err |-> Store_validate_prefix(prefix),
     reader |-> Loose_at_root(tree, order, prefix.path, Base)]

\* The prefixes a caller passes.
Prefixes ==
    {[absolute |-> FALSE, path |-> q] :
        q \in {<<>>, <<cRefs>>, <<cRefs, cA>>, <<cRefs, cAB>>, <<cRefs, cO>>, <<cO>>,
               <<cDot>>, <<cRefs, cDot, cA>>, <<cDotDot>>, <<cRefs, cDotDot, cO>>}}
    \cup {[absolute |-> TRUE, path |-> <<cRefs>>]}

NoPrefix == [absolute |-> FALSE, path |-> <<>>]

\* A call of the Store: the reader it returns, or its error.
Start(tree, order, call) ==
    LET got == IF call.fn = "loose_iter" THEN Store_loose_iter(tree, order)
               ELSE Store_loose_iter_prefixed(tree, order, call.prefix)
    IN  [state |-> IF got.err = "" THEN "reading" ELSE "failed",
         call |-> call, err |-> got.err,
         reader |-> IF got.err = "" THEN got.reader
                    ELSE [got.reader EXCEPT !.ref_paths.file_walk = <<>>]]

RECURSIVE RunReader(_, _)
\* Every item a reader yields until it returns None.
RunReader(tree, reader) ==
    LET got == Loose_next(tree, reader)
    IN  IF got.item.kind = "None" THEN <<>>
        ELSE <<got.item>> \o RunReader(tree, got.reader)

\* Every item the reader of a call yields; none when the call fails.
ItemsOf(tree, order, call) ==
    LET s == Start(tree, order, call)
    IN  IF s.state = "failed" THEN <<>> ELSE RunReader(tree, s.reader)

\* The paths a sequence of items names: every item but a Traversal error.
PathsOf(items) == {items[i].path : i \in {i \in 1..Len(items) : items[i].kind # "Traversal"}}

(***************************************************************************)
(* The operations on handles, Caches and References.                       *)
(***************************************************************************)
iterIdle ==
    [state |-> "idle", call |-> [fn |-> "", prefix |-> NoPrefix], err |-> "",
     reader |-> [ref_paths |-> [base |-> Base, file_walk |-> <<>>, mode |-> "Paths"],
                 buf |-> <<>>]]
NoPrevious == [run |-> FALSE, order |-> <<>>, items |-> <<>>]
NotCompared == [done |-> FALSE, left |-> <<>>, right |-> <<>>, equal |-> FALSE]

Init ==
    /\ repository = <<Repository>>
    /\ handles = <<>>
    /\ reference = NoReference
    /\ called = <<>>
    /\ last = Report("init", 0)
    /\ fs = <<>>
    /\ readdir = <<>>
    /\ iter = iterIdle
    /\ output = <<>>
    /\ previous = NoPrevious
    /\ objects = <<>>
    /\ compared = NotCompared

\* Repository::into_shared / into_shared_arc: the Repository moves into the handle.
IntoShared ==
    /\ handles = <<>>
    /\ \E kind \in HandleKinds :
         handles' = <<Handle_from(kind, RepoPtr)>>
    /\ called' = <<FALSE>>
    /\ last' = Report("into", 1)
    /\ UNCHANGED <<repository, reference>>
    /\ UNCHANGED iterVars
    /\ UNCHANGED objVars

\* handle.clone()
Clone ==
    /\ Len(handles) < MaxHandles
    /\ \E h \in DOMAIN handles :
         /\ handles' = Append(handles, Handle_clone(handles[h]))
         /\ repository' = Access_repo(repository, handles, h)
         /\ last' = Report("clone", h)
    /\ called' = Append(called, FALSE)
    /\ UNCHANGED reference
    /\ UNCHANGED iterVars
    /\ UNCHANGED objVars

\* handle.cache_mut().packed_refs(&handle.repo().refs)
PackedRefs ==
    \E h \in DOMAIN handles :
      \E open \in OpensFor(handles[h].cache) :
        LET pr == Cache_packed_refs(handles[h].cache, open)
        IN  /\ handles' = Handles_cache_mut(handles, h, pr.cache)
            /\ called' = [called EXCEPT ![h] = TRUE]
            /\ last' = [Report("packed_refs", h) EXCEPT
                          !.result = IF pr.err THEN "PackedRefsOpen" ELSE "Ok",
                          !.calls = 1, !.opened = pr.opened, !.borrows = 1,
                          !.retry = Retry(h)]
            /\ repository' = Access_repo(repository, handles, h)
            /\ UNCHANGED reference
            /\ UNCHANGED iterVars
            /\ UNCHANGED objVars

\* ReferencesExt::find_reference: `found` is what Store::find returns if called; a
\* packed result needs a packed buffer to come from. The caller holds the
\* Reference found; it has let go of any earlier one.
FindReference ==
    \E h \in DOMAIN handles, found \in FindOutcomes :
      \E open \in OpensFor(handles[h].cache) :
        LET pr == Cache_packed_refs(handles[h].cache, open)
        IN  /\ reference = NoReference
            /\ found.kind = "Packed" => pr.value # None
            /\ pr.err => found.kind = "NotFound"
            /\ handles' = Handles_cache_mut(handles, h, pr.cache)
            /\ called' = [called EXCEPT ![h] = TRUE]
            /\ reference' =
                 IF ~pr.err /\ found.kind \in {"Packed", "Loose"}
                 THEN [access |-> h, backing |-> Reference_from_ref(found)]
                 ELSE reference
            /\ last' = [Report("find_reference", h) EXCEPT
                          !.result = IF pr.err THEN "PackedRefsOpen"
                                     ELSE IF found.kind = "Error" THEN "Find"
                                     ELSE IF found.kind = "NotFound" THEN "OkNone"
                                     ELSE "Ok",
                          !.calls = 1, !.opened = pr.opened, !.borrows = 1,
                          !.retry = Retry(h),
                          !.storeFind = IF pr.err THEN 0 ELSE 1,
                          !.found = IF pr.err THEN NotSearched ELSE found]
            /\ repository' = Access_repo(repository, handles, h)
            /\ UNCHANGED iterVars
            /\ UNCHANGED objVars

\* The caller lets go of its Reference.
Drop ==
    /\ reference # NoReference
    /\ reference' = NoReference
    /\ last' = Report("drop", reference.access)
    /\ UNCHANGED <<repository, handles, called>>
    /\ UNCHANGED iterVars
    /\ UNCHANGED objVars

\* The inputs a peel of `backing` can tell apart: the open outcome matters to a
\* loose backing alone, the lookups and their result to an unpeeled one.
PeelInputs(backing, cache) ==
    IF backing.kind # "LooseFile"
    THEN {[open |-> None, need |-> 0, res |-> None]}
    ELSE IF backing.peeled
    THEN {[open |-> o, need |-> 0, res |-> None] : o \in OpensFor(cache)}
    ELSE {[open |-> o, need |-> n, res |-> r] :
            o \in OpensFor(cache), n \in 0..MaxFind, r \in {None} \cup ObjectIds}

\* reference.peel_to_object_in_place()
Peel ==
    /\ reference # NoReference
    /\ \E in \in PeelInputs(reference.backing, handles[reference.access].cache) :
        LET h == reference.access
            out == Reference_peel_to_object_in_place(
                       reference.backing, handles[h].cache, in.open, in.need, in.res)
        IN  /\ in.open = OpenError => in.need = 0 /\ in.res = None
            /\ reference' = [reference EXCEPT !.backing = out.backing]
            /\ handles' = Handles_cache_mut(handles, h, out.cache)
            /\ called' = [called EXCEPT ![h] = @ \/ out.calls > 0]
            /\ last' = [Report("peel", h) EXCEPT
                          !.result = out.result, !.id = out.id, !.calls = out.calls,
                          !.opened = out.opened, !.finds = out.finds,
                          !.callbacks = out.callbacks, !.borrows = out.borrows,
                          !.retry = out.calls = 1 /\ Retry(h),
                          !.target = IF reference.backing = NoBacking THEN NoTarget
                                     ELSE Reference_target(reference.backing)]
            /\ repository' = Access_repo(repository, handles, h)
            /\ UNCHANGED iterVars
            /\ UNCHANGED objVars

\* reference.target()
Target ==
    /\ reference # NoReference
    /\ LET t == Reference_target(reference.backing)
       IN  last' = [Report("target", reference.access) EXCEPT
                      !.result = IF t.kind = "Panic" THEN "Panic" ELSE "Ok",
                      !.target = t]
    /\ UNCHANGED <<repository, handles, reference, called>>
    /\ UNCHANGED iterVars
    /\ UNCHANGED objVars

\* reference.name()
Name ==
    /\ reference # NoReference
    /\ LET n == Reference_name(reference.backing)
       IN  last' = [Report("name", reference.access) EXCEPT
                      !.result = IF n = "Panic" THEN "Panic" ELSE "Ok",
                      !.name = n]
    /\ UNCHANGED <<repository, handles, reference, called>>
    /\ UNCHANGED iterVars
    /\ UNCHANGED objVars

Next ==
    \/ IntoShared
    \/ Clone
    \/ PackedRefs
    \/ FindReference
    \/ Drop
    \/ Peel
    \/ Target
    \/ Name

Spec == Init /\ [][Next]_vars

(***************************************************************************)
(* Objects obtained by peeling, and their comparison.                      *)
(***************************************************************************)
\* Two repositories were opened and each was moved into a handle of its own.
InitObj ==
    /\ repository = <<Repository, Repository>>
    /\ \E k1, k2 \in HandleKinds :
         handles = <<Handle_from(k1, 1), Handle_from(k2, 2)>>
    /\ reference = NoReference
    /\ called = <<FALSE, FALSE>>
    /\ last = Report("init", 0)
    /\ fs = <<>>
    /\ readdir = <<>>
    /\ iter = iterIdle
    /\ output = <<>>
    /\ previous = NoPrevious
    /\ objects = <<>>
    /\ compared = NotCompared

\* handle.find_reference(name)?.unwrap().peel_to_object_in_place()?: the caller
\* keeps the Object when the chain returns one. `from` remembers the backing of
\* the Reference that was peeled.
ObtainObject ==
    /\ Len(objects) < 2
    /\ \E h \in DOMAIN handles, found \in FindOutcomes :
        \E open \in OpensFor(handles[h].cache) :
          LET pr == Cache_packed_refs(handles[h].cache, open)
              backing == Reference_from_ref(found)
              peels == IF pr.err \/ found.kind \notin {"Packed", "Loose"}
                       THEN {[open |-> None, need |-> 0, res |-> None]}
                       ELSE PeelInputs(backing, pr.cache)
          IN  /\ found.kind = "Packed" => pr.value # None
              /\ pr.err => found.kind = "NotFound"
              /\ \E in \in peels :
                   LET out == IF pr.err \/ found.kind \notin {"Packed", "Loose"}
                              THEN PeelOutcome(NoBacking, pr.cache, "NoReference", None, 0, 0, 0, 0)
                              ELSE Reference_peel_to_object_in_place(
                                       backing, pr.cache, in.open, in.need, in.res)
                   IN  /\ in.open = OpenError => in.need = 0 /\ in.res = None
                       /\ handles' = Handles_cache_mut(handles, h, out.cache)
                       /\ objects' = IF out.result = "Ok"
                                     THEN Append(objects,
                                                 [object |-> Object_try_from_oid(out.id, h),
                                                  from |-> backing.kind])
                                     ELSE objects
                       /\ last' = [Report("obtain", h) EXCEPT !.result = out.result,
                                                              !.id = out.id]
          /\ called' = [called EXCEPT ![h] = TRUE]
          /\ repository' = Access_repo(repository, handles, h)
    /\ UNCHANGED <<reference, compared>>
    /\ UNCHANGED iterVars

\* left == right on the two Objects the caller holds.
Compare ==
    /\ Len(objects) = 2
    /\ ~compared.done
    /\ compared' = [done |-> TRUE, left |-> objects[1], right |-> objects[2],
                    equal |-> Object_eq(objects[1].object, objects[2].object)]
    /\ UNCHANGED <<repository, handles, reference, called, last, objects>>
    /\ UNCHANGED iterVars

NextObj ==
    \/ ObtainObject
    \/ Compare

SpecObj == InitObj /\ [][NextObj]_vars

(***************************************************************************)
(* Loose iteration over one directory tree.                                *)
(***************************************************************************)
InitIter ==
    /\ repository = <<Repository>>
    /\ handles = <<>>
    /\ reference = NoReference
    /\ called = <<>>
    /\ last = Report("init", 0)
    /\ fs \in Trees
    /\ readdir \in ReadDirOrders
    /\ iter = iterIdle
    /\ output = <<>>
    /\ previous = NoPrevious
    /\ objects = <<>>
    /\ compared = NotCompared

\* store.loose_iter()
LooseIter ==
    /\ iter.state = "idle"
    /\ iter' = Start(fs, readdir, [fn |-> "loose_iter", prefix |-> NoPrefix])
    /\ UNCHANGED <<fs, readdir, output, previous>>
    /\ UNCHANGED repoVars
    /\ UNCHANGED objVars

\* store.loose_iter_prefixed(prefix)
LooseIterPrefixed ==
    /\ iter.state = "idle"
    /\ \E prefix \in Prefixes :
         iter' = Start(fs, readdir, [fn |-> "loose_iter_prefixed", prefix |-> prefix])
    /\ UNCHANGED <<fs, readdir, output, previous>>
    /\ UNCHANGED repoVars
    /\ UNCHANGED objVars

\* reader.next()
LooseNext ==
    /\ iter.state = "reading"
    /\ LET got == Loose_next(fs, iter.reader)
       IN  /\ iter' = [iter EXCEPT !.reader = got.reader,
                                   !.state = IF got.item.kind = "None" THEN "done" ELSE @]
           /\ output' = IF got.item.kind = "None" THEN output ELSE Append(output, got.item)
    /\ UNCHANGED <<fs, readdir, previous>>
    /\ UNCHANGED repoVars
    /\ UNCHANGED objVars

\* The same call once more over the same files, which the filesystem now lists
\* in another order.
Rerun ==
    /\ iter.state = "done"
    /\ ~previous.run
    /\ \E order \in ReadDirOrders \ {readdir} :
         /\ readdir' = order
         /\ iter' = Start(fs, order, iter.call)
    /\ previous' = [run |-> TRUE, order |-> readdir, items |-> output]
    /\ output' = <<>>
    /\ UNCHANGED fs
    /\ UNCHANGED repoVars
    /\ UNCHANGED objVars

NextIter ==
    \/ LooseIter
    \/ LooseIterPrefixed
    \/ LooseNext
    \/ Rerun

SpecIter == InitIter /\ [][NextIter]_vars

(***************************************************************************)
(* The walker on its own, in either mode.                                  *)
(***************************************************************************)
\* The roots below the base a walker is started at.
WalkRoots == {<<cRefs>>, <<cRefs, cA>>, <<cRefs, cAB>>, <<cO>>, <<>>}

Walking(fn, root, walker) ==
    [state |-> "walking", call |-> [fn |-> fn, prefix |-> [absolute |-> FALSE, path |-> root]],
     err |-> "", reader |-> [ref_paths |-> walker, buf |-> <<>>]]

\* SortedLoosePaths::at_root(base.join(root), base)
AtRoot ==
    /\ iter.state = "idle"
    /\ \E root \in WalkRoots :
         iter' = Walking("at_root", root, SortedLoosePaths_at_root(fs, readdir, root, Base))
    /\ UNCHANGED <<fs, readdir, output, previous>>
    /\ UNCHANGED repoVars
    /\ UNCHANGED objVars

\* SortedLoosePaths::at_root_with_names(base.join(root), base)
AtRootWithNames ==
    /\ iter.state = "idle"
    /\ \E root \in WalkRoots :
         iter' = Walking("at_root_with_names", root,
                         SortedLoosePaths_at_root_with_names(fs, readdir, root, Base))
    /\ UNCHANGED <<fs, readdir, output, previous>>
    /\ UNCHANGED repoVars
    /\ UNCHANGED objVars

\* walker.next()
WalkerNext ==
    /\ iter.state = "walking"
    /\ LET got == SortedLoosePaths_next(iter.reader.ref_paths)
       IN  /\ iter' = [iter EXCEPT !.reader.ref_paths = got.walker,
                                   !.state = IF got.item.kind = "None" THEN "walked" ELSE @]
           /\ output' = IF got.item.kind = "None" THEN output ELSE Append(output, got.item)
    /\ UNCHANGED <<fs, readdir, previous>>
    /\ UNCHANGED repoVars
    /\ UNCHANGED objVars

NextWalk ==
    \/ AtRoot
    \/ AtRootWithNames
    \/ WalkerNext

SpecWalk == InitIter /\ [][NextWalk]_vars

\* The caller of a walker calls next() until it returns None.
SpecWalkFair == SpecWalk /\ WF_vars(WalkerNext)

(***************************************************************************)
(* Properties of the handle model.                                         *)
(***************************************************************************)
PeelErrors == {"PackedRefsOpen", "LoosePeelToId"}
SlotOf(h) == handles[h].cache.packed_refs

\* C1: a peel that returns PackedRefsOpen or LoosePeelToId leaves the Reference
\* exactly as it was before the call.
C1_PeelErrorKeepsState ==
    [][(last'.op = "peel" /\ last'.result \in PeelErrors)
         => reference' = reference]_vars

\* C2, as claimed: over the calls of Cache::packed_refs on one Cache, the call
\* opens the packed file exactly when it is the first call on that Cache.
C2_OpenedExactlyOnce ==
    [][last'.calls = 1 => (last'.opened = 1 <=> ~called[last'.h])]_vars

\* C2, amended: a Cache::packed_refs call opens the packed file exactly when the
\* slot is empty at the call; the first call on a Cache finds it empty, and a call
\* that finds a buffer hands that buffer back and leaves the Cache alone.
C2_OpensWhenSlotEmpty ==
    /\ [](\A h \in DOMAIN handles : ~called[h] => SlotOf(h) = None)
    /\ [][last'.calls = 1 =>
            /\ last'.opened = 1 <=> SlotOf(last'.h) = None
            /\ SlotOf(last'.h) # None => handles'[last'.h] = handles[last'.h]]_vars

\* A peel opened the packed file and got a buffer, although find_reference had
\* already run Cache::packed_refs on the same Cache.
C2_Witness ==
    /\ last.op = "peel" /\ last.opened = 1 /\ last.result = "Ok"
    /\ SlotOf(last.h) # None

\* C3: when Cache::packed_refs fails to open the packed file the error is
\* returned and the slot stays empty, and the next call on that Cache opens the
\* file again.
C3_FailedOpenNotCached ==
    /\ (last.calls = 1 /\ last.result = "PackedRefsOpen")
         => (last.opened = 1 /\ SlotOf(last.h) = None)
    /\ last.retry => last.opened = 1

\* The call after a failed open opened the file again and loaded a buffer.
C3_Witness ==
    /\ last.op = "packed_refs" /\ last.retry /\ last.result = "Ok"
    /\ last.opened = 1 /\ SlotOf(last.h) # None

\* C4: a clone points to the Repository of its source, has the source's kind and
\* an empty Cache, and leaves the source as it was.
C4_CloneHasEmptyCache ==
    [][last'.op = "clone" =>
         LET src == last'.h
             new == Len(handles')
         IN  /\ new = Len(handles) + 1
             /\ handles'[new].repo = handles[src].repo
             /\ handles'[new].kind = handles[src].kind
             /\ handles'[new].cache = Cache_default
             /\ \A h \in DOMAIN handles : handles'[h] = handles[h]]_vars

\* A handle whose Cache holds a packed buffer was cloned.
C4_Witness ==
    /\ last.op = "clone"
    /\ SlotOf(last.h) # None
    /\ handles[Len(handles)].cache = Cache_default
    /\ handles[Len(handles)].repo = handles[last.h].repo

\* C5: an operation issued through one handle leaves the Cache of every other
\* handle unchanged.
C5_OtherCachesUnchanged ==
    [][\A h \in DOMAIN handles :
         h # last'.h => handles'[h].cache = handles[h].cache]_vars

\* The clone's Cache was populated by a peel and the original's is still empty.
C5_Witness ==
    /\ Len(handles) >= 2
    /\ last.op = "peel" /\ last.h = 2 /\ last.opened = 1
    /\ SlotOf(2) # None
    /\ SlotOf(1) = None

\* C6: a peel of a packed-backed Reference makes no object lookup, opens no
\* packed file and borrows no Cache.
C6_PackedPeelTouchesNothing ==
    [][(last'.op = "peel" /\ reference.backing.kind = "OwnedPacked") =>
         /\ last'.finds = 0 /\ last'.callbacks = 0
         /\ last'.opened = 0 /\ last'.calls = 0 /\ last'.borrows = 0
         /\ handles' = handles /\ called' = called]_vars

\* A packed-backed Reference was peeled to its precomputed id.
C6_Witness ==
    /\ last.op = "peel" /\ last.result = "Ok"
    /\ reference.backing.kind = "OwnedPacked"
    /\ reference.backing.object = None
    /\ last.id = reference.backing.target

\* C7: after a peel that succeeded, the next peel of the same Reference returns
\* the same object id with no object lookup and no packed-file open.
C7_SecondPeelDoesNoWork ==
    [][(last.op = "peel" /\ last.result = "Ok" /\ last'.op = "peel") =>
         /\ last'.result = "Ok" /\ last'.id = last.id
         /\ last'.finds = 0 /\ last'.opened = 0]_vars

\* C8: the paths loose iteration yields, relative to the base directory, are
\* strictly sorted lexicographically, whatever the directory tree.
C8_PathsSortedLexicographically ==
    \A i, j \in 1..Len(output) :
        (i < j /\ output[i].kind # "Traversal" /\ output[j].kind # "Traversal")
            => BytesLess(JoinBytes(output[i].path), JoinBytes(output[j].path))

C10_PrefixedIsFilteredFull ==
    (/\ iter.state = "done"
     /\ iter.call.fn = "loose_iter_prefixed"
     /\ ~iter.call.prefix.absolute
     /\ \A i \in 1..Len(iter.call.prefix.path) :
            iter.call.prefix.path[i] \notin {cDot, cDotDot})
        => PathsOf(output) =
            {q \in PathsOf(ItemsOf(fs, readdir, [fn |-> "loose_iter", prefix |-> NoPrefix])) :
                IsPrefix(iter.call.prefix.path, q)}

(***************************************************************************)
(* Properties of the Store's entry points and of the reader.               *)
(***************************************************************************)
\* C11: loose_iter_prefixed fails with the invalid-prefix error, and walks
\* nothing, exactly when the prefix is absolute or has a `.` or `..` component
\* at any position; when it succeeds its reader is rooted at refs/<prefix>
\* below the base.
C11_PrefixRefusedOrRootedInRefs ==
    (iter.call.fn = "loose_iter_prefixed" /\ iter.state \in {"reading", "failed"}
     /\ output = <<>>) =>
        LET prefix == iter.call.prefix
            refused == \/ prefix.absolute
                       \/ \E i \in 1..Len(prefix.path) : prefix.path[i] \in {cDot, cDotDot}
            walk == iter.reader.ref_paths.file_walk
        IN  /\ refused <=> (iter.state = "failed" /\ iter.err = "InvalidInput" /\ walk = <<>>)
            /\ ~refused => (walk # <<>> /\ Head(walk).path = Base \o Store_refs_dir \o prefix.path)

\* C12: loose_iter fails with NotFound, and returns no reader, exactly when
\* <base>/refs is not a directory; otherwise its reader is rooted at <base>/refs
\* and every name it yields is relative to <base>, so begins with refs.
C12_NotFoundUnlessRefsIsDir ==
    (iter.call.fn = "loose_iter" /\ iter.state # "idle") =>
        LET walk == iter.reader.ref_paths.file_walk
        IN  /\ (iter.state = "failed") <=> ~IsDir(KindOf(fs, Store_refs_dir))
            /\ iter.state = "failed" => (iter.err = "NotFound" /\ walk = <<>> /\ output = <<>>)
            /\ (iter.state = "reading" /\ output = <<>>) =>
                  (walk # <<>> /\ Head(walk).path = Base \o Store_refs_dir)
            /\ iter.state # "failed" =>
                  /\ iter.reader.ref_paths.base = Base
                  /\ \A i \in 1..Len(output) :
                        output[i].kind # "Traversal" =>
                            /\ IsPrefix(Store_refs_dir, output[i].path)
                            /\ IsFile(KindOf(fs, output[i].path))

\* loose_iter was called where refs is a regular file, and failed.
C12_Witness ==
    /\ iter.call.fn = "loose_iter"
    /\ iter.state = "failed" /\ iter.err = "NotFound"
    /\ KindOf(fs, Store_refs_dir) = "file"

\* The tree without the regular files whose path fails name validation.
WithoutInvalidFiles(tree) ==
    [q \in DOMAIN tree |-> IF IsFile(tree[q]) /\ ~NamePartialOk(q) THEN "absent" ELSE tree[q]]

\* C13: a file whose path relative to the base fails name validation is never
\* yielded and never gives an error item: every item that names a path names one
\* that passes validation, and a complete run yields what it would yield if the
\* invalid files were not there.
C13_InvalidNamesAreSkipped ==
    /\ \A i \in 1..Len(output) :
          output[i].kind # "Traversal" => NamePartialOk(output[i].path)
    /\ iter.state = "done" => output = ItemsOf(WithoutInvalidFiles(fs), readdir, iter.call)

\* A run ended over a tree that holds a file with a control character in its
\* name beside a file with a valid name, which was yielded.
C13_Witness ==
    /\ iter.state = "done"
    /\ KindOf(fs, <<cRefs, cA, cCtl>>) = "file"
    /\ WithoutInvalidFiles(fs) # fs
    /\ \E i \in 1..Len(output) : output[i].kind = "Ok" /\ output[i].path = <<cRefs, cA, cB>>

RECURSIVE WalkerItems(_)
\* Every item a walker yields until it returns None.
WalkerItems(w) ==
    LET got == SortedLoosePaths_next(w)
    IN  IF got.item.kind = "None" THEN <<>>
        ELSE <<got.item>> \o WalkerItems(got.walker)

\* What the reader's items and the walker's items have in common: an error of
\* the walk, or the path relative to the base.
ReaderTrace(items) ==
    [i \in 1..Len(items) |-> IF items[i].kind = "Traversal" THEN <<"Err">>
                             ELSE <<"Ok", items[i].path>>]
WalkerTrace(items, base) ==
    [i \in 1..Len(items) |-> IF items[i].kind = "Err" THEN <<"Err">>
                             ELSE <<"Ok", StripPrefix(items[i].path, base)>>]

\* C14: the reader yields one item for each item of its walker, in the walker's
\* order, and an error item does not end the sequence: the items yielded so far
\* followed by what the walker still holds are the items of the whole walk, and
\* the reader ends only when the walker has nothing left.
C14_OneItemPerWalkerItem ==
    iter.state \in {"reading", "done"} =>
        LET whole == Start(fs, readdir, iter.call).reader.ref_paths
            left == iter.reader.ref_paths
        IN  /\ ReaderTrace(output) \o WalkerTrace(WalkerItems(left), left.base)
                 = WalkerTrace(WalkerItems(whole), whole.base)
            /\ iter.state = "done" => WalkerItems(left) = <<>>

\* A run ended that yielded a decode error, then a read error, then a reference.
C14_Witness ==
    /\ iter.state = "done"
    /\ \E i, j, k \in 1..Len(output) :
          /\ i < j /\ j < k
          /\ output[i].kind = "ReferenceCreation"
          /\ output[j].kind = "ReadFileContents"
          /\ output[k].kind = "Ok"

(***************************************************************************)
(* Properties of Objects, the Repository and References.                   *)
(***************************************************************************)
\* C15: two Objects obtained by peeling compare equal exactly when their ids
\* are equal, whatever backing the peeled References had and whatever handle,
\* of whatever kind, produced them.
C15_EqualIffSameId ==
    compared.done =>
        (compared.equal <=> compared.left.object.id = compared.right.object.id)

\* An Object peeled from a loose Reference through a Shared handle compared equal
\* to one peeled from a packed Reference through a SharedArc handle.
C15_Witness ==
    /\ compared.done /\ compared.equal
    /\ compared.left.from # compared.right.from
    /\ compared.left.object.access # compared.right.object.access
    /\ handles[compared.left.object.access].kind # handles[compared.right.object.access].kind

C17_NoBorrowViolation ==
    [][(last'.op = "peel" /\ reference.backing.kind = "LooseFile")
         => ~(last'.callbacks > 0 /\ last'.result = "Panic")]_vars

\* C18: the backing of a Reference is set after every operation, so name(),
\* target() and peel_to_object_in_place never fail their expectation that it is.
C18_BackingAlwaysSet ==
    /\ reference.access # 0 => reference.backing # NoBacking
    /\ (last.op \in {"name", "target", "peel"} /\ last.callbacks = 0) => last.result # "Panic"

\* C19: a peel of a packed-backed Reference with target T and peeled slot P
\* returns P if P is present and T otherwise; afterwards the Reference's target
\* is the returned id, its peeled slot is empty and its name is what it was.
C19_PackedPeelAdoptsPeeledId ==
    [][(last'.op = "peel" /\ reference.backing.kind = "OwnedPacked") =>
         LET p == reference.backing
             id == IF p.object # None THEN p.object ELSE p.target
         IN  /\ last'.result = "Ok" /\ last'.id = id
             /\ reference'.backing.kind = "OwnedPacked"
             /\ Reference_target(reference'.backing) = Peeled(id)
             /\ reference'.backing.object = None
             /\ Reference_name(reference'.backing) = Reference_name(p)
             /\ reference'.access = reference.access]_vars

\* A packed-backed Reference whose peeled slot held an id other than its target
\* was peeled: it returned that id and has it as its target now.
C19_Witness ==
    /\ last.op = "peel" /\ last.result = "Ok"
    /\ reference.backing.kind = "OwnedPacked"
    /\ last.target.kind = "Peeled" /\ last.target.id # last.id
    /\ reference.backing.target = last.id
    /\ reference.backing.object = None

\* C20: once the packed_refs slot of a Cache holds a buffer, no operation
\* replaces or clears it: every step leaves a loaded slot holding its buffer.
C20_LoadedBufferStays ==
    [][\A h \in DOMAIN handles :
         SlotOf(h) # None => handles'[h].cache.packed_refs = SlotOf(h)]_vars

\* A loose Reference was peeled through a handle whose slot was loaded before:
\* Cache::packed_refs ran, opened nothing, and the buffer is in the slot.
C20_Witness ==
    /\ last.op = "peel" /\ last.result = "Ok"
    /\ last.calls = 1 /\ last.opened = 0
    /\ SlotOf(last.h) # None

(***************************************************************************)
(* Properties of the loose peel arm, find_reference, target and name.      *)
(***************************************************************************)
\* C21: a peel of a loose-backed Reference runs Cache::packed_refs, which loads
\* the packed buffer when the slot is empty, before it goes on to the loose peel;
\* if the open fails the peel returns PackedRefsOpen with no run of the
\* object-lookup closure and no call of the loose peel (the only borrow made is
\* the cache_mut of the load).
C21_LoosePeelLoadsPackedFirst ==
    [][(last'.op = "peel" /\ reference.backing.kind = "LooseFile") =>
         LET h == reference.access
         IN  /\ last'.h = h /\ last'.calls = 1
             /\ last'.opened = 1 <=> SlotOf(h) = None
             /\ last'.result = "PackedRefsOpen" =>
                   /\ last'.opened = 1
                   /\ last'.callbacks = 0 /\ last'.finds = 0 /\ last'.borrows = 1
                   /\ handles'[h].cache = handles[h].cache
             /\ last'.result # "PackedRefsOpen" => last'.borrows >= 2]_vars

\* A loose Reference that had not been peeled was peeled where the packed file
\* could not be opened.
C21_Witness ==
    /\ last.op = "peel" /\ last.result = "PackedRefsOpen"
    /\ last.opened = 1 /\ last.callbacks = 0 /\ last.borrows = 1
    /\ SlotOf(last.h) = None
    /\ last.target # NoTarget

(***************************************************************************)
(* Properties of the walker.                                               *)
(***************************************************************************)
\* The regular files with a valid name at or below the root of the walk, in
\* directories that can be listed.
FilesBelow(tree, root) ==
    {q \in DOMAIN tree :
        /\ IsFile(tree[q]) /\ NamePartialOk(q) /\ IsPrefix(root, q)
        /\ \A n \in Len(root)..(Len(q) - 1) : n >= 1 => tree[SubSeq(q, 1, n)] = "dir"}

\* The paths of the Ok items, relative to the base.
YieldedPaths(items) ==
    {StripPrefix(items[i].path, Base) : i \in {i \in 1..Len(items) : items[i].kind = "Ok"}}

\* C22: the walker yields only regular files, never a directory or a symbolic
\* link, and it does reach and yield the files inside subdirectories: at the
\* end of a walk every regular file with a valid name below the root was
\* yielded.
C22_OnlyRegularFilesYielded ==
    /\ \A q \in YieldedPaths(output) : IsFile(KindOf(fs, q))
    /\ iter.state = "walked" =>
          FilesBelow(fs, iter.call.prefix.path) \subseteq YieldedPaths(output)

\* A walk from refs ended over a tree with a subdirectory and a symbolic link:
\* the file in the subdirectory was yielded, the directory and the link not.
C22_Witness ==
    /\ iter.state = "walked"
    /\ iter.call.prefix.path = <<cRefs>>
    /\ KindOf(fs, <<cRefs, cA>>) = "dir"
    /\ KindOf(fs, <<cRefs, cB>>) = "symlink"
    /\ <<cRefs, cA, cB>> \in YieldedPaths(output)
    /\ <<cRefs, cB>> \notin YieldedPaths(output)

\* An entry of the walk that next() passes over: not a regular file, or a
\* regular file whose name fails validation.
Skipped(entry) ==
    /\ entry.kind = "Entry"
    /\ ~IsFile(entry.type) \/ ~NamePartialOk(StripPrefix(entry.path, Base))

\* C23: a walk of a finite tree ends: the caller's next() calls reach None; each
\* call takes entries off the walk, and all the entries it passes over before
\* the one it returns, or before None, go in that one call; None comes only
\* when the walk is used up; and by then every regular file with a valid name
\* below the root was yielded, none of them twice.
C23_WalkEndsEachFileOnce ==
    /\ (iter.state = "walking") ~> (iter.state = "walked")
    /\ [][iter.state = "walking" =>
            LET before == iter.reader.ref_paths.file_walk
                after == iter'.reader.ref_paths.file_walk
                taken == Len(before) - Len(after)
                yielded == output' # output
            IN  /\ after = SubSeq(before, Len(before) - Len(after) + 1, Len(before))
                /\ yielded <=> iter'.state = "walking"
                /\ yielded =>
                      /\ taken >= 1
                      /\ output' = Append(output, output'[Len(output')])
                      /\ output'[Len(output')].path = before[taken].path
                      /\ ~Skipped(before[taken])
                      /\ \A i \in 1..(taken - 1) : Skipped(before[i])
                /\ ~yielded =>
                      /\ iter'.state = "walked" /\ after = <<>>
                      /\ \A i \in 1..taken : Skipped(before[i])]_vars
    /\ [](\A i, j \in 1..Len(output) :
            (i # j /\ output[i].kind = "Ok") => output[i].path # output[j].path)
    /\ [](iter.state = "walked" =>
            /\ iter.reader.ref_paths.file_walk = <<>>
            /\ FilesBelow(fs, iter.call.prefix.path) = YieldedPaths(output))

\* A walk from refs ended whose first next() passed over refs, refs/a and the
\* invalid refs/a/<a\x01> before it returned refs/a/b.
C23_Witness ==
    /\ iter.state = "walked"
    /\ iter.call.prefix.path = <<cRefs>>
    /\ KindOf(fs, <<cRefs, cA, cCtl>>) = "file"
    /\ Len(output) >= 2
    /\ output[1].kind = "Ok" /\ output[1].path = Base \o <<cRefs, cA, cB>>

\* C24: find_reference calls Cache::packed_refs once on its own handle, which
\* opens the packed file exactly when the handle's slot is empty, and touches
\* no other handle's cache; a failed open is returned as PackedRefsOpen with no
\* Store::find call, no Reference and the slot still empty; otherwise Store::find
\* runs once, and what it found comes back as a Reference on that handle:
\* a packed entry as OwnedPacked with the entry's name, target and peeled id,
\* a loose one as LooseFile with its name and target; nothing found or a failed
\* find gives no Reference.
C24_FindLoadsThenWraps ==
    [][last'.op = "find_reference" =>
         LET h == last'.h
             found == last'.found
         IN  /\ last'.calls = 1
             /\ last'.opened = 1 <=> SlotOf(h) = None
             /\ \A g \in DOMAIN handles : g # h => handles'[g] = handles[g]
             /\ SlotOf(h) # None => handles'[h].cache = handles[h].cache
             /\ last'.result = "PackedRefsOpen" =>
                   /\ SlotOf(h) = None /\ handles'[h].cache = handles[h].cache
                   /\ last'.storeFind = 0 /\ found = NotSearched
                   /\ reference' = reference
             /\ last'.result # "PackedRefsOpen" =>
                   /\ last'.storeFind = 1 /\ found # NotSearched
                   /\ found.kind = "Packed" => handles'[h].cache.packed_refs # None
             /\ last'.result = "Ok" <=> found.kind \in {"Packed", "Loose"}
             /\ found.kind = "Packed" =>
                   reference' = [access |-> h,
                                 backing |-> [kind |-> "OwnedPacked", name |-> found.name,
                                              target |-> found.target,
                                              object |-> found.object]]
             /\ found.kind = "Loose" =>
                   /\ reference'.access = h
                   /\ reference'.backing.kind = "LooseFile"
                   /\ reference'.backing.name = found.name
                   /\ reference'.backing.target = found.target
             /\ found.kind \in {"NotFound", "Error"} => reference' = reference]_vars

\* A find_reference on an empty cache opened the packed file and returned a
\* packed entry that carries a peeled id.
C24_Witness ==
    /\ last.op = "find_reference" /\ last.result = "Ok" /\ last.opened = 1
    /\ last.found.kind = "Packed" /\ last.found.object # None
    /\ reference # NoReference /\ reference.backing.kind = "OwnedPacked"
    /\ handles[last.h].cache.packed_refs # None

\* C25: target() and name() leave the Reference, the caches and the repository
\* as they are; on a packed-backed Reference target() gives a Peeled target:
\* right after the find_reference that made the Reference it holds the entry's
\* direct target, right after a successful peel the id that peel returned, and
\* asked again it gives the same answer; name() gives the entry's name.
C25_TargetFollowsPeel ==
    [][last'.op \in {"target", "name"} =>
         /\ reference' = reference /\ handles' = handles /\ repository' = repository
         /\ (last'.op = "name" /\ reference.backing.kind = "OwnedPacked") =>
               last'.name = reference.backing.name
         /\ (last'.op = "target" /\ reference.backing.kind = "OwnedPacked") =>
               /\ last'.result = "Ok" /\ last'.target.kind = "Peeled"
               /\ last.op = "find_reference" => last'.target = Peeled(last.found.target)
               /\ (last.op = "peel" /\ last.result = "Ok") =>
                     /\ last'.target = Peeled(last.id)
                     /\ last.target.kind = "Peeled"
               /\ last.op = "target" => last'.target = last.target]_vars

\* target() was asked of a packed-backed Reference whose peeled id is used up.
C25_Witness ==
    /\ last.op = "target" /\ last.result = "Ok"
    /\ reference # NoReference /\ reference.backing.kind = "OwnedPacked"
    /\ reference.backing.object = None
    /\ last.target = Peeled(reference.backing.target)

\* The items without their names.
WithoutNames(items) ==
    [i \in 1..Len(items) |-> [kind |-> items[i].kind, path |-> items[i].path]]

\* The whole output of a walker of the other mode over the same tree and root.
OtherModeItems ==
    WalkerItems(SortedLoosePaths_new(fs, readdir, iter.call.prefix.path, Base,
                                     IF iter.call.fn = "at_root" THEN "PathsAndNames"
                                     ELSE "Paths"))

\* C26: an Ok item of a walker made by at_root has no name, an Ok item of one
\* made by at_root_with_names has as its name the bytes of its path relative to
\* the base; and the items of a walker are, names aside, the items a walker of
\* the other mode yields over the same tree and root, in the same order.
C26_ModeOnlySetsName ==
    iter.state \in {"walking", "walked"} =>
        /\ \A i \in 1..Len(output) :
              output[i].kind = "Ok" =>
                 output[i].name = IF iter.call.fn = "at_root" THEN NoName
                                  ELSE JoinBytes(StripPrefix(output[i].path, Base))
        /\ Len(output) <= Len(OtherModeItems)
        /\ WithoutNames(output) = SubSeq(WithoutNames(OtherModeItems), 1, Len(output))
        /\ iter.state = "walked" => Len(output) = Len(OtherModeItems)

\* A walker with names finished and named refs/a/b by its bytes.
C26_Witness ==
    /\ iter.state = "walked" /\ iter.call.fn = "at_root_with_names"
    /\ iter.call.prefix.path = <<cRefs>>
    /\ \E i \in 1..Len(output) :
          /\ output[i].kind = "Ok" /\ output[i].path = Base \o <<cRefs, cA, cB>>
          /\ output[i].name = cRefs \o <<Slash>> \o cA \o <<Slash>> \o cB
    /\ \E i \in 1..Len(output) : output[i].path = Base \o <<cRefs, cAB>>

\* C27: whenever the reader decodes, the buffer holds the bytes of the file of
\* the entry it took from the walker and nothing else, whatever the entries
\* before left in it; the item is Ok exactly when those bytes are the text of a
\* reference, and a ReferenceCreation error names that entry's path relative to
\* the base. A read that fails is not decoded.
C27_DecodesOwnFileOnly ==
    [][(iter.state = "reading" /\ Len(output') = Len(output) + 1) =>
         LET item == output'[Len(output')]
             entry == WalkerItems(iter.reader.ref_paths)[1]
             own == StripPrefix(entry.path, Base)
         IN  /\ item.kind \in {"Ok", "ReferenceCreation"} =>
                   /\ entry.kind = "Ok"
                   /\ item.path = own
                   /\ iter'.reader.buf = FileContent(fs, own)
                   /\ item.kind = "Ok" <=> KindOf(fs, own) = "file"
             /\ (entry.kind = "Ok" /\ KindOf(fs, own) \in {"locked", "torn"}) =>
                   item.kind = "ReadFileContents"
             /\ (entry.kind = "Ok" /\ KindOf(fs, own) = "locked") =>
                   iter'.reader.buf = iter.reader.buf]_vars

\* A run ended in which the read of refs/a/b failed part-way, refs/a-b could not
\* be opened, and refs/b was then decoded from its own bytes.
C27_Witness ==
    /\ iter.state = "done"
    /\ KindOf(fs, <<cRefs, cA, cB>>) = "torn" /\ KindOf(fs, <<cRefs, cAB>>) = "locked"
    /\ Len(output) >= 3
    /\ output[Len(output) - 2].kind = "ReadFileContents"
    /\ output[Len(output) - 1].kind = "ReadFileContents"
    /\ output[Len(output)] = [kind |-> "Ok", path |-> <<cRefs, cB>>]
    /\ iter.reader.buf = FileContent(fs, <<cRefs, cB>>)

====
